---- MODULE Spec2Model ----
(***************************************************************************)
(* The partition traversal engine of changestreams.Reader (reader.go):     *)
(* the partition state registry (r.states under r.mu), the tasks running   *)
(* startRead under one errgroup.Group, and the one-shot Read entry point.  *)
(*                                                                         *)
(* A task is one goroutine started by group.Go.  Every access to r.states  *)
(* happens under r.mu, so markStateReading, markStateFinished and          *)
(* canReadChild are each one atomic step; everything a task does between   *)
(* two such steps touches only its own locals.  The change stream itself   *)
(* (the rows a partition yields, and whether the query, the decoding or    *)
(* the caller's callback fails) is the environment: it is drawn from a     *)
(* small set of partition DAGs and from nondeterministic failures.         *)
(***************************************************************************)
EXTENDS Integers, Sequences, FiniteSets, TLC

\* ------------------------------------------------------------------------
\* Bounds
\* ------------------------------------------------------------------------

\* Number of Read calls made on the one Reader (concurrently or in sequence).
MaxCallers == 2

\* Number of data-only rows every partition's stream yields before the rows
\* that carry its child-partitions records.
MaxData == 1

\* ------------------------------------------------------------------------
\* partitionState (reader.go:102-108)
\* ------------------------------------------------------------------------

partitionStateUnknown == 0

partitionStateReading == 1

partitionStateFinished == 2

\* The root partition token.
RootToken == ""

\* Reader.startTimestamp as configured (the zero time means "now").
rootStart == 0

\* ------------------------------------------------------------------------
\* Errors.  nil is NoErr; every other error names its kind and the partition
\* whose task produced it.
\* ------------------------------------------------------------------------

NoErr == [kind |-> "nil", token |-> ""]

ErrAlreadyRead == [kind |-> "already read", token |-> ""]

Err(kind, tok) == [kind |-> kind, token |-> tok]

\* ------------------------------------------------------------------------
\* The change stream: the input of the traversal.
\*
\* A row decodes to a sequence of ChildPartitionsRecord values (the empty
\* sequence for a row that carries only data-change or heartbeat records).
\* ------------------------------------------------------------------------

ChildPartition(tok, parents) == [Token |-> tok, ParentPartitionTokens |-> parents]

ChildPartitionsRecord(ts, children) == [StartTimestamp |-> ts, ChildPartitions |-> children]

DataRow == << >>

\* Scenario A: root -> {a, b}.  The root query announces its children with
\* an empty parent list, in one record.
DagA ==
    [ rows |->
        ( "" :> << << ChildPartitionsRecord(1, << ChildPartition("a", << >>),
                                                 ChildPartition("b", << >>) >>) >> >>
       @@ "a" :> << >>
       @@ "b" :> << >> ) ]

\* Scenario B: root -> {a, b} -> c, where c lists both a and b as parents.
\* The root announces a and b in two records of one row, with two start
\* timestamps.
DagB ==
    [ rows |->
        ( "" :> << << ChildPartitionsRecord(1, << ChildPartition("a", << >>) >>),
                      ChildPartitionsRecord(2, << ChildPartition("b", << >>) >>) >> >>
       @@ "a" :> << << ChildPartitionsRecord(3, << ChildPartition("c", <<"a", "b">>) >>) >> >>
       @@ "b" :> << << ChildPartitionsRecord(3, << ChildPartition("c", <<"a", "b">>) >>) >> >>
       @@ "c" :> << >> ) ]

\* A split announced redundantly: the root announces a in two rows, and a
\* announces b and c (each with parent a) in one record.
DagC ==
    [ rows |->
        ( "" :> << << ChildPartitionsRecord(1, << ChildPartition("a", << >>) >>) >>,
                   << ChildPartitionsRecord(1, << ChildPartition("a", << >>) >>) >> >>
       @@ "a" :> << << ChildPartitionsRecord(2, << ChildPartition("b", << "a" >>),
                                                  ChildPartition("c", << "a" >>) >>) >> >>
       @@ "b" :> << >>
       @@ "c" :> << >> ) ]

Dags == {DagA, DagB, DagC}

\* The rows of partition tok in DAG d: MaxData data rows, then the
\* announcement rows.
DataPrefix == [k \in 1..MaxData |-> DataRow]

Stream(d, tok) == DataPrefix \o d.rows[tok]

Tokens(d) == DOMAIN d.rows

\* Every ChildPartition value some row of DAG d carries, with its announcer.
Announcements(d) ==
    { [by |-> p, child |-> d.rows[p][r][i].ChildPartitions[j]] :
        <<p, r, i, j>> \in
          { q \in Tokens(d) \X (1..2) \X (1..2) \X (1..2) :
              /\ q[2] <= Len(d.rows[q[1]])
              /\ q[3] <= Len(d.rows[q[1]][q[2]])
              /\ q[4] <= Len(d.rows[q[1]][q[2]][q[3]].ChildPartitions) } }

\* The partitions that announce child c.
Announcers(d, c) == { a.by : a \in { x \in Announcements(d) : x.child.Token = c } }

\* The parent list child c is announced with (one list per child: see
\* WellFormed); empty for the root, which nothing announces.
ParentsOf(d, c) ==
    IF \A x \in Announcements(d) : x.child.Token # c THEN {}
    ELSE LET a == CHOOSE x \in Announcements(d) : x.child.Token = c
         IN  { a.child.ParentPartitionTokens[k] : k \in 1..Len(a.child.ParentPartitionTokens) }

Children(d) == { a.child.Token : a \in Announcements(d) }

\* The protocol of the change stream: a child is never the root, every
\* announcement of one child carries the same parent list, every listed
\* parent announces the child, and only the root query announces children
\* without listing itself (with an empty parent list).
WellFormed(d) ==
    /\ RootToken \notin Children(d)
    /\ Children(d) \subseteq Tokens(d)
    /\ \A a, b \in Announcements(d) :
          a.child.Token = b.child.Token => a.child = b.child
    /\ \A c \in Children(d) :
          /\ ParentsOf(d, c) \subseteq Announcers(d, c)
          /\ Announcers(d, c) \subseteq ParentsOf(d, c) \cup {RootToken}
          /\ (RootToken \in Announcers(d, c) => ParentsOf(d, c) = {})

\* ------------------------------------------------------------------------
\* State
\* ------------------------------------------------------------------------

VARIABLES
    dag,          \* the partition DAG the change stream presents
    states,       \* r.states: the registry, a map token -> partitionState
    group,        \* r.group: 0 is nil, otherwise the Read call that made it
    wg,           \* the group's count of outstanding tasks
    gerr,         \* the group's first error (NoErr while none)
    cancelled,    \* the group's shared context is cancelled
    tasks,        \* the goroutines started by group.Go, in spawn order
    reads,        \* the Read calls, in the order they take r.mu: position and returned value
    finishOrder,  \* the tokens in the order markStateFinished ran
    reported      \* the first non-nil error a task's function returned

vars == <<dag, states, group, wg, gerr, cancelled, tasks, reads, finishOrder, reported>>

Callers == 1..MaxCallers

TaskIds == 1..Len(tasks)

\* r.states[k] as Go reads a map: the zero value when k has no entry.
Lookup(st, k) == IF k \in DOMAIN st THEN st[k] ELSE partitionStateUnknown

Init ==
    /\ dag \in Dags
    /\ states = [k \in {} |-> partitionStateUnknown]
    /\ group = 0
    /\ wg = 0
    /\ gerr = NoErr
    /\ cancelled = FALSE
    /\ tasks = << >>
    /\ reads = [c \in Callers |-> [pc |-> "idle", ret |-> NoErr]]
    /\ finishOrder = << >>
    /\ reported = NoErr

\* A task as group.Go starts it: the closure's captured token and start
\* timestamp, and startRead's locals.
NewTask(tok, ts, by) ==
    [ token   |-> tok,        \* partitionToken
      ts      |-> ts,         \* startTimestamp
      by      |-> by,         \* the task whose loop called group.Go (0: Read)
      pc      |-> "start",
      claimed |-> FALSE,      \* markStateReading returned true
      opened  |-> FALSE,      \* the query's stream was opened
      row     |-> 1,          \* the next row of the stream
      sent    |-> 0,          \* calls of f made by this task
      cpr     |-> << >>,      \* childPartitionRecords
      i       |-> 1,          \* index into childPartitionRecords
      j       |-> 1,          \* index into its ChildPartitions
      pend    |-> FALSE,      \* canReadChild returned true, group.Go not yet called
      err     |-> NoErr,      \* the value startRead returned
      log     |-> << >>,      \* the results handed to f, in call order
      late    |-> \E u \in TaskIds : tasks[u].err.kind = "sink" ]
                              \* f had already returned an error when group.Go ran

\* ------------------------------------------------------------------------
\* The registry (reader.go:296-325).  Each operator is the body of one
\* method, run under r.mu: it takes the map and yields the returned value
\* and the map it leaves.
\* ------------------------------------------------------------------------

\* Mutant: the presence test is missing: every caller sets Reading and gets true.
markStateReadingAlways(st, partitionToken) ==
    [ok |-> TRUE,
     states |-> [k \in DOMAIN st \cup {partitionToken} |->
                   IF k = partitionToken THEN partitionStateReading ELSE st[k]]]

\* Mutant: the claim test looks at the entry's value, not at its presence,
\* so a Finished token can be claimed again.
markStateReadingStale(st, partitionToken) ==
    IF Lookup(st, partitionToken) = partitionStateReading
    THEN [ok |-> FALSE, states |-> st]
    ELSE [ok |-> TRUE,
          states |-> [k \in DOMAIN st \cup {partitionToken} |->
                        IF k = partitionToken THEN partitionStateReading ELSE st[k]]]

markStateReading(st, partitionToken) ==
    IF partitionToken \in DOMAIN st
    THEN [ok |-> FALSE, states |-> st]
    ELSE [ok |-> TRUE, states |-> st @@ (partitionToken :> partitionStateReading)]

\* Mutant: a finished partition's entry is dropped from the map.
markStateFinishedDeletes(st, partitionToken) ==
    [k \in DOMAIN st \ {partitionToken} |-> st[k]]

markStateFinished(st, partitionToken) ==
    [k \in DOMAIN st \cup {partitionToken} |->
        IF k = partitionToken THEN partitionStateFinished ELSE st[k]]

\* Mutant: the loop returns true at the first Finished parent instead of
\* false at the first unfinished one.
canReadChildAny(st, partition) ==
    [ ok |-> \/ Len(partition.ParentPartitionTokens) = 0
             \/ \E k \in 1..Len(partition.ParentPartitionTokens) :
                   Lookup(st, partition.ParentPartitionTokens[k]) = partitionStateFinished,
      states |-> st ]

\* Mutant: the comparison in the loop is inverted: a Finished parent makes
\* the child not readable.
canReadChildInverted(st, partition) ==
    [ ok |-> \A k \in 1..Len(partition.ParentPartitionTokens) :
                Lookup(st, partition.ParentPartitionTokens[k]) # partitionStateFinished,
      states |-> st ]

\* Mutant: the loop tests for "started" instead of "finished": a parent that
\* is still Reading does not hold the child back.
canReadChildStarted(st, partition) ==
    [ ok |-> \A k \in 1..Len(partition.ParentPartitionTokens) :
                Lookup(st, partition.ParentPartitionTokens[k]) # partitionStateUnknown,
      states |-> st ]

\* Mutant: the loop returns at its first iteration, so only the first
\* parent is looked at.
canReadChildFirstOnly(st, partition) ==
    [ ok |-> \/ Len(partition.ParentPartitionTokens) = 0
             \/ Lookup(st, partition.ParentPartitionTokens[1]) = partitionStateFinished,
      states |-> st ]

\* Mutant: the lookup of a parent that has no entry stores the zero value.
canReadChildInserts(st, partition) ==
    [ ok |-> \A k \in 1..Len(partition.ParentPartitionTokens) :
                Lookup(st, partition.ParentPartitionTokens[k]) = partitionStateFinished,
      states |-> [ x \in DOMAIN st \cup
                          { partition.ParentPartitionTokens[k] :
                              k \in 1..Len(partition.ParentPartitionTokens) } |->
                   Lookup(st, x) ] ]

canReadChild(st, partition) ==
    [ ok |-> \A k \in 1..Len(partition.ParentPartitionTokens) :
                Lookup(st, partition.ParentPartitionTokens[k]) = partitionStateFinished,
      states |-> st ]

\* ------------------------------------------------------------------------
\* errgroup.Group as Read and startRead use it: the first non-nil error a
\* task returns is kept and cancels the shared context; Wait blocks until
\* the count of outstanding tasks is zero.
\* ------------------------------------------------------------------------

\* Mutant: every non-nil error overwrites the one kept.
errLast(first, e) == IF e # NoErr THEN e ELSE first

errOnce(first, e) == IF first = NoErr THEN e ELSE first

\* Mutant: Read returns as soon as the group holds an error.
WaitDoneOnError(n) == n = 0 \/ gerr # NoErr

WaitDone(n) == n = 0

\* ------------------------------------------------------------------------
\* Read (reader.go:181-200)
\* ------------------------------------------------------------------------

\* Mutant: a Read is rejected only while tasks of an earlier one are running.
ReadRejectsWhileRunning(g) == g # 0 /\ wg > 0

\* The reentry test, under r.mu: r.group != nil.
ReadRejects(g) == g # 0

\* The value Read returns: group.Wait()'s.
ReadResult(waitErr) == waitErr

\* The critical section at the head of Read.  Read calls are numbered in
\* the order in which they take r.mu.
ReadEnter(c) ==
    /\ reads[c].pc = "idle"
    /\ \A d \in Callers : d < c => reads[d].pc # "idle"
    /\ IF ReadRejects(group)
       THEN /\ reads' = [reads EXCEPT ![c] = [pc |-> "done", ret |-> ErrAlreadyRead]]
            /\ UNCHANGED <<group, wg, gerr>>
       ELSE /\ group' = c
            /\ wg' = 0
            /\ gerr' = NoErr
            /\ reads' = [reads EXCEPT ![c].pc = "go"]
    /\ UNCHANGED <<dag, states, cancelled, tasks, finishOrder, reported>>

\* r.group.Go(func() error { return r.startRead(ctx, "", start, f) })
ReadGo(c) ==
    /\ reads[c].pc = "go"
    /\ wg' = wg + 1
    /\ tasks' = Append(tasks, NewTask(RootToken, rootStart, 0))
    /\ reads' = [reads EXCEPT ![c].pc = "wait"]
    /\ UNCHANGED <<dag, states, group, gerr, cancelled, finishOrder, reported>>

\* return group.Wait()
ReadWait(c) ==
    /\ reads[c].pc = "wait"
    /\ WaitDone(wg)
    /\ cancelled' = TRUE
    /\ reads' = [reads EXCEPT ![c] = [pc |-> "done", ret |-> ReadResult(gerr)]]
    /\ UNCHANGED <<dag, states, group, wg, gerr, tasks, finishOrder, reported>>

\* The caller cancels the context it passed to Read.
CallerCancel ==
    /\ ~cancelled
    /\ \E c \in Callers : reads[c].pc \in {"go", "wait"}
    /\ cancelled' = TRUE
    /\ UNCHANGED <<dag, states, group, wg, gerr, tasks, reads, finishOrder, reported>>

\* ------------------------------------------------------------------------
\* startRead (reader.go:202-294)
\* ------------------------------------------------------------------------

\* The first position at or after record i whose record lists a child, as
\* the two nested range loops visit them; Len(cpr) + 1 when there is none.
FirstFrom(cpr, i) ==
    LET S == { k \in i..Len(cpr) : Len(cpr[k].ChildPartitions) > 0 }
    IN  IF S = {} THEN Len(cpr) + 1
        ELSE CHOOSE k \in S : \A x \in S : k <= x

\* The loop position after child j of record i.
Advance(task) ==
    IF task.j < Len(task.cpr[task.i].ChildPartitions)
    THEN [task EXCEPT !.j = task.j + 1, !.pend = FALSE]
    ELSE [task EXCEPT !.i = FirstFrom(task.cpr, task.i + 1), !.j = 1, !.pend = FALSE]

\* The child the loop is at.
CurrentChild(task) == task.cpr[task.i].ChildPartitions[task.j]

\* Mutant: the closure reads variables shared by all iterations, and sees
\* what the last iteration left in them.
CapturedLate(task) ==
    LET n == Len(task.cpr)
        m == Len(task.cpr[n].ChildPartitions)
    IN  [token |-> task.cpr[n].ChildPartitions[m].Token,
         ts |-> task.cpr[n].StartTimestamp]

\* What the closure handed to group.Go captures: partition (a copy of the
\* loop variable) and childStartTimestamp.
Captured(task) ==
    [token |-> CurrentChild(task).Token, ts |-> task.cpr[task.i].StartTimestamp]

\* Mutant: the task returns without running the spawn loop to its end.
LoopDoneEarly(task) == task.pc = "loop"

\* Mutant: the loop stops after the first accumulated record.
LoopDoneFirstRecord(task) ==
    task.pc = "loop" /\ ~task.pend /\ (task.i > 1 \/ task.i > Len(task.cpr))

\* The spawn loop has visited every child of every accumulated record.
LoopDone(task) == task.pc = "loop" /\ ~task.pend /\ task.i > Len(task.cpr)

\* The task's function returns e: the group keeps the first error, cancels
\* the shared context on it, and counts the task out.
\* Mutant: the task's return is not counted: the group's count of
\* outstanding tasks stays as it was.
ExitWithoutDone(t, task, e) ==
    /\ tasks' = [tasks EXCEPT ![t] = [task EXCEPT !.pc = "done", !.err = e]]
    /\ gerr' = errOnce(gerr, e)
    /\ cancelled' = (cancelled \/ e # NoErr)
    /\ wg' = wg
    /\ reported' = IF reported = NoErr THEN e ELSE reported

Exit(t, task, e) ==
    /\ tasks' = [tasks EXCEPT ![t] = [task EXCEPT !.pc = "done", !.err = e]]
    /\ gerr' = errOnce(gerr, e)
    /\ cancelled' = (cancelled \/ e # NoErr)
    /\ wg' = wg - 1
    /\ reported' = IF reported = NoErr THEN e ELSE reported

\* if !r.markStateReading(partitionToken) { return nil }
Claim(t) ==
    /\ tasks[t].pc = "start"
    /\ LET m == markStateReading(states, tasks[t].token)
       IN  /\ states' = m.states
           /\ IF m.ok
              THEN /\ tasks' = [tasks EXCEPT ![t].pc = "open", ![t].claimed = TRUE]
                   /\ UNCHANGED <<wg, gerr, cancelled, reported>>
              ELSE Exit(t, tasks[t], NoErr)
    /\ UNCHANGED <<dag, group, reads, finishOrder>>

\* Mutant: the query is given a context the group does not cancel.
QueryContextNeverDone == FALSE

\* The ctx startRead hands to Query is the one errgroup.WithContext returned
\* (Read rebinds ctx), so it is done once the group is cancelled.
QueryContextDone == cancelled

\* r.client.Single().Query(ctx, stmt): the stream opens unless the context
\* is already cancelled.
Open(t) ==
    /\ tasks[t].pc = "open"
    /\ ~QueryContextDone
    /\ tasks' = [tasks EXCEPT ![t].pc = "rows", ![t].opened = TRUE]
    /\ UNCHANGED <<dag, states, group, wg, gerr, cancelled, reads, finishOrder, reported>>

\* The query fails (at opening or between two rows): Do returns the error.
StreamErr(t) ==
    /\ tasks[t].pc \in {"open", "rows"}
    /\ Exit(t, tasks[t], Err("stream", tasks[t].token))
    /\ UNCHANGED <<dag, states, group, reads, finishOrder>>

\* Mutant: a cancelled stream is treated as one that ended cleanly, and the
\* partition is marked Finished before the task returns.
CtxErrFinishes(t) ==
    /\ tasks[t].pc \in {"open", "rows"}
    /\ QueryContextDone
    /\ states' = markStateFinished(states, tasks[t].token)
    /\ Exit(t, tasks[t], Err("cancelled", ""))
    /\ UNCHANGED <<dag, group, reads, finishOrder>>

\* The query observes the cancelled context: Do returns the context's error.
CtxErr(t) ==
    /\ tasks[t].pc \in {"open", "rows"}
    /\ QueryContextDone
    /\ Exit(t, tasks[t], Err("cancelled", ""))
    /\ UNCHANGED <<dag, states, group, reads, finishOrder>>

HasRow(task) == task.pc = "rows" /\ task.row <= Len(Stream(dag, task.token))

\* The callback's decoding of the row fails: nothing is appended, f is not called.
DecodeErr(t) ==
    /\ HasRow(tasks[t])
    /\ Exit(t, tasks[t], Err("decode", tasks[t].token))
    /\ UNCHANGED <<dag, states, group, reads, finishOrder>>

\* The callback on one row: its child-partitions records are appended and f
\* is called with the result.
\* Mutant: the result is built without its PartitionToken, which is then the
\* zero value, the root's token.
DeliveredUntagged(task) ==
    [task EXCEPT !.cpr = task.cpr \o Stream(dag, task.token)[task.row],
                 !.log = Append(task.log, [PartitionToken |-> RootToken, row |-> task.row]),
                 !.sent = task.sent + 1,
                 !.row = task.row + 1]

Delivered(task) ==
    [task EXCEPT !.cpr = task.cpr \o Stream(dag, task.token)[task.row],
                 !.log = Append(task.log, [PartitionToken |-> task.token, row |-> task.row]),
                 !.sent = task.sent + 1,
                 !.row = task.row + 1]

RowOk(t) ==
    /\ HasRow(tasks[t])
    /\ tasks' = [tasks EXCEPT ![t] = Delivered(tasks[t])]
    /\ UNCHANGED <<dag, states, group, wg, gerr, cancelled, reads, finishOrder, reported>>

\* f returns an error on the row.
SinkErr(t) ==
    /\ HasRow(tasks[t])
    /\ Exit(t, Delivered(tasks[t]), Err("sink", tasks[t].token))
    /\ UNCHANGED <<dag, states, group, reads, finishOrder>>

\* Mutant: Do returns nil before the stream's rows are all consumed.
StreamExhaustedAnytime(task) == TRUE

\* Do returns nil only when the iterator is done and the callback returned
\* nil on every row.
StreamExhausted(task) == task.row > Len(Stream(dag, task.token))

\* Mutant: the spawn loop starts without the call of markStateFinished.
FinishWithoutMark(t) ==
    /\ tasks[t].pc = "rows"
    /\ StreamExhausted(tasks[t])
    /\ finishOrder' = Append(finishOrder, tasks[t].token)
    /\ tasks' = [tasks EXCEPT ![t].pc = "loop",
                              ![t].i = FirstFrom(tasks[t].cpr, 1),
                              ![t].j = 1]
    /\ UNCHANGED <<dag, states, group, wg, gerr, cancelled, reads, reported>>

\* The stream ends cleanly: r.markStateFinished(partitionToken), and the
\* spawn loop starts.
Finish(t) ==
    /\ tasks[t].pc = "rows"
    /\ StreamExhausted(tasks[t])
    /\ states' = markStateFinished(states, tasks[t].token)
    /\ finishOrder' = Append(finishOrder, tasks[t].token)
    /\ tasks' = [tasks EXCEPT ![t].pc = "loop",
                              ![t].i = FirstFrom(tasks[t].cpr, 1),
                              ![t].j = 1]
    /\ UNCHANGED <<dag, group, wg, gerr, cancelled, reads, reported>>

\* if r.canReadChild(childPartition) { ... }
Check(t) ==
    /\ tasks[t].pc = "loop"
    /\ ~tasks[t].pend
    /\ tasks[t].i <= Len(tasks[t].cpr)
    /\ LET m == canReadChild(states, CurrentChild(tasks[t]))
       IN  /\ states' = m.states
           /\ tasks' = [tasks EXCEPT ![t] =
                          IF m.ok THEN [tasks[t] EXCEPT !.pend = TRUE]
                          ELSE Advance(tasks[t])]
    /\ UNCHANGED <<dag, group, wg, gerr, cancelled, reads, finishOrder, reported>>

\* r.group.Go(func() error { return r.startRead(ctx, partition.Token, childStartTimestamp, f) })
Go(t) ==
    /\ tasks[t].pc = "loop"
    /\ tasks[t].pend
    /\ wg' = wg + 1
    /\ tasks' = Append([tasks EXCEPT ![t] = Advance(tasks[t])],
                       NewTask(Captured(tasks[t]).token, Captured(tasks[t]).ts, t))
    /\ UNCHANGED <<dag, states, group, gerr, cancelled, reads, finishOrder, reported>>

\* return nil, after the loop.
Return(t) ==
    /\ LoopDone(tasks[t])
    /\ Exit(t, tasks[t], NoErr)
    /\ UNCHANGED <<dag, states, group, reads, finishOrder>>

\* ------------------------------------------------------------------------
\* Specifications
\* ------------------------------------------------------------------------

Next ==
    \/ \E c \in Callers : ReadEnter(c)
    \/ \E c \in Callers : ReadGo(c)
    \/ \E c \in Callers : ReadWait(c)
    \/ CallerCancel
    \/ \E t \in TaskIds : Claim(t)
    \/ \E t \in TaskIds : Open(t)
    \/ \E t \in TaskIds : RowOk(t)
    \/ \E t \in TaskIds : Finish(t)
    \/ \E t \in TaskIds : Check(t)
    \/ \E t \in TaskIds : Go(t)
    \/ \E t \in TaskIds : Return(t)
    \/ \E t \in TaskIds : StreamErr(t)
    \/ \E t \in TaskIds : CtxErr(t)
    \/ \E t \in TaskIds : DecodeErr(t)
    \/ \E t \in TaskIds : SinkErr(t)

Spec == Init /\ [][Next]_vars

\* The steps a task takes on its own, without the stream: the Go runtime
\* schedules every runnable goroutine, and r.mu is held only for the length
\* of one registry method, so a task that can take such a step eventually
\* takes it.
Engine == \E t \in TaskIds : Claim(t) \/ Check(t) \/ Go(t) \/ Return(t)

FairSpec == Spec /\ WF_vars(Engine)

\* A step of some partition's query stream: it opens, yields a row to the
\* callback (which returns), ends, or fails.
StreamStep ==
    \E t \in TaskIds :
        \/ Open(t) \/ StreamErr(t) \/ CtxErr(t) \/ DecodeErr(t)
        \/ RowOk(t) \/ SinkErr(t) \/ Finish(t)

\* A step of a Read call that holds or has had r.mu.
ReadStep == \E c \in Callers : ReadGo(c) \/ ReadWait(c)

\* Fair scheduling of the goroutines, with streams that do not stay open
\* and silent forever and a sink that returns.
TermSpec == Spec /\ WF_vars(Engine) /\ WF_vars(StreamStep) /\ WF_vars(ReadStep)

\* The inputs obey the change stream's protocol.
InputsWellFormed == WellFormed(dag)

\* ------------------------------------------------------------------------
\* Vocabulary of the properties
\* ------------------------------------------------------------------------

\* The tokens any DAG of the model uses for child partitions.
AllChildren == {"a", "b", "c"}

\* Tasks that have run markStateReading on token tok.
Callers_markStateReading(tok) ==
    { t \in TaskIds : tasks[t].token = tok /\ tasks[t].pc # "start" }

\* Tasks for which markStateReading(tok) returned true.
Claimers(tok) == { t \in TaskIds : tasks[t].token = tok /\ tasks[t].claimed }

\* Tasks started for token tok by group.Go.
TasksFor(tok) == { t \in TaskIds : tasks[t].token = tok }

IsFinished(tok) == Lookup(states, tok) = partitionStateFinished

\* The Read call that made the group has returned.
ReadReturned == \E c \in Callers : group = c /\ reads[c].pc = "done"

\* ------------------------------------------------------------------------
\* Properties
\* ------------------------------------------------------------------------

\* C1: for every token on which markStateReading has been called, exactly
\* one call returned true; every other caller of startRead got false and
\* returned nil without opening a stream or calling f.
C1_ClaimExactlyOnce ==
    /\ \A tok \in Tokens(dag) :
          Callers_markStateReading(tok) # {} => Cardinality(Claimers(tok)) = 1
    /\ \A t \in TaskIds :
          (tasks[t].pc # "start" /\ ~tasks[t].claimed) =>
              /\ tasks[t].pc = "done"
              /\ tasks[t].err = NoErr
              /\ ~tasks[t].opened
              /\ tasks[t].sent = 0

\* Two tasks have run markStateReading on one token: one claimed it, the
\* other returned.
C1_Witness ==
    \E t, u \in TaskIds :
        /\ t # u
        /\ tasks[t].token = tasks[u].token
        /\ tasks[t].claimed
        /\ tasks[u].pc = "done" /\ ~tasks[u].claimed

\* C2: a child that is Reading or Finished has every parent of its
\* announced parent list Finished, and so has every child a task was
\* started for or is about to be started for.
C2_ParentsFinishedFirst ==
    /\ \A c \in Children(dag) :
          (c \in DOMAIN states \/ TasksFor(c) # {}) =>
              \A p \in ParentsOf(dag, c) : IsFinished(p)
    /\ \A t \in TaskIds :
          tasks[t].pend =>
              \A p \in ParentsOf(dag, CurrentChild(tasks[t]).Token) : IsFinished(p)

\* A child with two listed parents is being read.
C2_Witness ==
    \E c \in Children(dag) :
        /\ Cardinality(ParentsOf(dag, c)) = 2
        /\ Lookup(states, c) = partitionStateReading

\* The position of tok in the order of the markStateFinished calls.
FinishPos(tok) == CHOOSE k \in 1..Len(finishOrder) : finishOrder[k] = tok

\* Tasks for token tok whose query stream was opened.
Openers(tok) == { t \in TasksFor(tok) : tasks[t].opened }

\* The token of the task whose loop started task t.
SpawnerToken(t) == tasks[tasks[t].by].token

\* The number of times task u's accumulated records list child c.
Listed(u, c) ==
    Cardinality({ q \in (1..Len(tasks[u].cpr)) \X (1..2) :
                    /\ q[2] <= Len(tasks[u].cpr[q[1]].ChildPartitions)
                    /\ tasks[u].cpr[q[1]].ChildPartitions[q[2]].Token = c })

AllTasksDone == Len(tasks) > 0 /\ \A t \in TaskIds : tasks[t].pc = "done"

\* C3 as stated: group.Go runs at most once for a child, one task opens its
\* stream, and the parent whose loop spawns it is the last of the listed
\* parents to have run markStateFinished.
C3_Original ==
    \A c \in { x \in Children(dag) : Cardinality(Announcers(dag, x)) > 1 } :
        /\ Cardinality(TasksFor(c)) <= 1
        /\ Cardinality(Openers(c)) <= 1
        /\ \A t \in TasksFor(c) : \A p \in ParentsOf(dag, c) :
              FinishPos(p) <= FinishPos(SpawnerToken(t))

\* C3, amended: a child is claimed and opened by exactly one task.  Every
\* task started for it was started by a finished task, once per listing,
\* after all listed parents were Finished; the tasks that lose the claim
\* return nil.  Once every task has returned and all announcers of the
\* child are Finished, exactly one task has claimed it.
C3_ClaimedOnce ==
    \A c \in Children(dag) :
        /\ Cardinality(Claimers(c)) <= 1
        /\ Cardinality(Openers(c)) <= 1
        /\ Openers(c) \subseteq Claimers(c)
        /\ \A t \in TasksFor(c) :
              /\ tasks[t].by \in TaskIds
              /\ IsFinished(SpawnerToken(t))
              /\ \A p \in ParentsOf(dag, c) : IsFinished(p)
              /\ (tasks[t].pc = "done" /\ ~tasks[t].claimed) => tasks[t].err = NoErr
        /\ \A u \in TaskIds :
              Cardinality({ t \in TasksFor(c) : tasks[t].by = u }) <= Listed(u, c)
        /\ (AllTasksDone /\ \A p \in Announcers(dag, c) : IsFinished(p)) =>
              Cardinality(Claimers(c)) = 1

\* Two parents each saw all parents Finished and each called group.Go for
\* the child; one task claimed it, the other returned nil; the task that
\* claimed it was started by the parent that ran markStateFinished first.
C3_Witness ==
    \E c \in Children(dag) : \E t, u \in TasksFor(c) :
        /\ SpawnerToken(t) # SpawnerToken(u)
        /\ tasks[t].claimed /\ tasks[t].opened
        /\ tasks[u].pc = "done" /\ ~tasks[u].claimed
        /\ FinishPos(SpawnerToken(t)) < FinishPos(SpawnerToken(u))

\* Every partition that announces child c is Finished.
AnnouncersFinished(c) ==
    c \in Children(dag) /\ \A p \in Announcers(dag, c) : IsFinished(p)

\* The task that claimed token tok.
Owner(tok) == CHOOSE t \in TaskIds : tasks[t].token = tok /\ tasks[t].claimed

\* Task t's loop is past every listing of child c.
PastChild(t, c) ==
    /\ tasks[t].pc \in {"loop", "done"}
    /\ tasks[t].err = NoErr
    /\ ~tasks[t].pend
    /\ \A q \in (1..Len(tasks[t].cpr)) \X (1..2) :
          (/\ q[2] <= Len(tasks[t].cpr[q[1]].ChildPartitions)
           /\ tasks[t].cpr[q[1]].ChildPartitions[q[2]].Token = c)
          => \/ q[1] < tasks[t].i
             \/ q[1] = tasks[t].i /\ q[2] < tasks[t].j

\* The last announcer of c to run markStateFinished, once all have.
LastFinisher(c) ==
    CHOOSE p \in Announcers(dag, c) :
        \A q \in Announcers(dag, c) : FinishPos(q) <= FinishPos(p)

\* Once all announcers of c are Finished, the task of the last one to run
\* markStateFinished, when its loop is past c, has called group.Go for c.
C4_LastParentSpawned ==
    \A c \in AllChildren :
        (AnnouncersFinished(c) /\ PastChild(Owner(LastFinisher(c)), c)) =>
            \E t \in TasksFor(c) : tasks[t].by = Owner(LastFinisher(c))

\* C4: if every partition that announces a child finishes cleanly, the
\* child eventually reaches Reading (it gets a registry entry), and it is
\* the last parent to run markStateFinished whose own check spawns it.
C4_GateLiveness ==
    /\ [] C4_LastParentSpawned
    /\ \A c \in AllChildren : (AnnouncersFinished(c) ~> c \in DOMAIN states)

\* A child of two parents has been claimed by a task that the last parent
\* to finish started.
C4_Witness ==
    \E c \in Children(dag) :
        /\ Cardinality(ParentsOf(dag, c)) = 2
        /\ AnnouncersFinished(c)
        /\ \E t \in Claimers(c) : SpawnerToken(t) = LastFinisher(c)

\* The value the Read call that made the group returned.
ReadValue == reads[group].ret

\* Task t's function returned a non-nil error.
Failed(t) == tasks[t].pc = "done" /\ tasks[t].err # NoErr

\* The children partition tok's stream announces.
AnnouncedBy(tok) == { a.child.Token : a \in { x \in Announcements(dag) : x.by = tok } }

\* C5: when Read returns nil, every registry entry is Finished, every
\* partition announced by a Finished partition is Finished, every task has
\* returned and every row of every partition read has been handed to f.
C5_NilMeansComplete ==
    (ReadReturned /\ ReadValue = NoErr) =>
        /\ \A k \in DOMAIN states : states[k] = partitionStateFinished
        /\ RootToken \in DOMAIN states
        /\ \A a \in Announcements(dag) : IsFinished(a.by) => IsFinished(a.child.Token)
        /\ \A t \in TaskIds : tasks[t].pc = "done"
        /\ \A k \in DOMAIN states : tasks[Owner(k)].sent = Len(Stream(dag, k))

\* Read returned nil after the diamond root -> {a, b} -> c was read whole.
C5_Witness ==
    /\ ReadReturned /\ ReadValue = NoErr
    /\ \E c \in DOMAIN states : Cardinality(ParentsOf(dag, c)) = 2

\* C6 as stated: no child announced by a failed partition ever gets a
\* registry entry, and Read returns the failed partition's error.
C6_Original ==
    \A t \in TaskIds : Failed(t) =>
        /\ \A c \in AnnouncedBy(tasks[t].token) : c \notin DOMAIN states
        /\ ReadReturned => ReadValue = tasks[t].err

\* C6, amended: no child announced by a failed partition ever gets a
\* registry entry (no task is even started for it), and Read returns a
\* non-nil error: the first one a task reported.
C6_FailedParentBlocksChildren ==
    \A t \in TaskIds : Failed(t) =>
        /\ \A c \in AnnouncedBy(tasks[t].token) :
              c \notin DOMAIN states /\ TasksFor(c) = {}
        /\ ReadReturned => (ReadValue # NoErr /\ ReadValue = reported)

\* A partition failed after it had received a child announcement, another
\* parent of that child finished cleanly and ran its check, and Read has
\* returned.
C6_Witness ==
    /\ ReadReturned
    /\ \E t, u \in TaskIds :
          /\ Failed(t) /\ Len(tasks[t].cpr) > 0
          /\ tasks[u].pc = "done" /\ tasks[u].err = NoErr /\ tasks[u].claimed
          /\ \E c \in AnnouncedBy(tasks[t].token) :
                c \in AnnouncedBy(tasks[u].token) /\ Listed(u, c) > 0

\* The Read calls that started a traversal.
Starters ==
    { c \in Callers : \/ reads[c].pc \in {"go", "wait"}
                      \/ reads[c].pc = "done" /\ reads[c].ret # ErrAlreadyRead }

C7_OneTraversal ==
    /\ Cardinality(Starters) <= 1
    /\ Cardinality({ t \in TaskIds : tasks[t].by = 0 }) <= 1
    /\ (\A c \in Callers : reads[c].pc # "idle") => Cardinality(Starters) = 1
    /\ \A c \in Callers :
          (reads[c].pc # "idle" /\ c # group) =>
              reads[c].pc = "done" /\ reads[c].ret = ErrAlreadyRead

\* A Read call made when r.group is already set.
C7_Rejection ==
    \A c \in Callers :
        (reads[c].pc = "idle" /\ group # 0 /\ reads'[c] # reads[c]) =>
            /\ reads'[c] = [pc |-> "done", ret |-> ErrAlreadyRead]
            /\ UNCHANGED <<states, group, wg, gerr, cancelled, tasks>>

\* C7: of all Read calls on one Reader exactly one starts a traversal and
\* one root task; every other call, concurrent or later, returns the
\* "already read" error in one step that leaves r.states, r.group, the
\* group's counter and error, and the tasks unchanged.
C7_OneShot == [] C7_OneTraversal /\ [][C7_Rejection]_vars

\* The first Read has returned and another Read has been rejected.
C7_Witness ==
    /\ ReadReturned
    /\ \E c \in Callers : c # group /\ reads[c] = [pc |-> "done", ret |-> ErrAlreadyRead]

C8_FirstErrorKept ==
    /\ gerr = reported
    /\ ReadReturned =>
          /\ ReadValue = reported
          /\ (\E t \in TaskIds : tasks[t].err # NoErr) => ReadValue # NoErr

\* C8: Read returns the first non-nil error any task returned; once one is
\* reported, later errors do not replace it, and Read does not return nil
\* when some task returned an error.
C8_FirstError ==
    /\ [] C8_FirstErrorKept
    /\ [][reported # NoErr => (reported' = reported /\ gerr' = gerr)]_vars

\* Two tasks failed with different errors, a sibling partition finished,
\* and Read returned the first error.
C8_Witness ==
    /\ ReadReturned /\ ReadValue # NoErr
    /\ \E t, u \in TaskIds :
          /\ Failed(t) /\ Failed(u) /\ tasks[t].err # tasks[u].err
          /\ tasks[u].err.kind # "cancelled" /\ tasks[t].err.kind # "cancelled"
    /\ \E v \in TaskIds : tasks[v].token # RootToken /\ IsFinished(tasks[v].token)

\* C9: when Read has returned, every task started has returned, and from
\* then on neither the registry nor any task (its calls of f included)
\* changes.
C9_WaitsForAll ==
    /\ [] (ReadReturned => \A t \in TaskIds : tasks[t].pc = "done")
    /\ [][ReadReturned => UNCHANGED <<states, tasks, wg>>]_vars

\* Read returned an error after a task that was running when the error was
\* reported had unwound with the cancellation error.
C9_Witness ==
    /\ ReadReturned /\ ReadValue # NoErr /\ ReadValue.kind # "cancelled"
    /\ \E t \in TaskIds : Failed(t) /\ tasks[t].err.kind = "cancelled"

\* C10: the group's counter is the number of tasks that have not returned;
\* a task returns nil only with its loop at the end and no child found
\* readable but not yet handed to group.Go; so while such a child exists the
\* counter is positive and Read has not returned.
C10_SpawnBeforeDone ==
    /\ group # 0 => wg = Cardinality({ t \in TaskIds : tasks[t].pc # "done" })
    /\ \A t \in TaskIds :
          (tasks[t].pc = "done" /\ tasks[t].claimed /\ tasks[t].err = NoErr) =>
              ~tasks[t].pend /\ tasks[t].i > Len(tasks[t].cpr)
    /\ \A t \in TaskIds : tasks[t].pend => tasks[t].pc = "loop"
    /\ (\E t \in TaskIds : tasks[t].pend) => (wg > 0 /\ ~ReadReturned)

\* A finished task has found a child readable and not yet registered it,
\* and it is the only task the group still counts.
C10_Witness ==
    /\ wg = 1
    /\ \E t \in TaskIds : tasks[t].pend /\ IsFinished(tasks[t].token)

\* Task t's call of f returned an error.
SinkFailed(t) == Failed(t) /\ tasks[t].err.kind = "sink"

InStreamOrder(t) ==
    /\ Len(tasks[t].log) = tasks[t].sent
    /\ \A k \in 1..Len(tasks[t].log) : tasks[t].log[k].row = k

\* C12: within one partition the results reach f in the order the stream
\* produces its rows, and a token is Finished only when f has returned
\* without error for every row of its stream, the last one included.
C12_OrderedThenFinished ==
    /\ \A t \in TaskIds : InStreamOrder(t)
    /\ \A tok \in DOMAIN states : states[tok] = partitionStateFinished =>
          \E t \in Claimers(tok) :
              /\ Len(tasks[t].log) = Len(Stream(dag, tok))
              /\ ~Failed(t)
              /\ tasks[t].pc \in {"loop", "done"}

\* A partition whose stream has at least two rows is Finished.
C12_Witness ==
    \E tok \in DOMAIN states :
        /\ states[tok] = partitionStateFinished
        /\ Len(Stream(dag, tok)) >= 2
        /\ \E t \in Claimers(tok) : Len(tasks[t].log) >= 2

\* The tokens whose registry state differs between two registries.
ChangedEntries(st, st2) ==
    { k \in DOMAIN st \cup DOMAIN st2 : Lookup(st, k) # Lookup(st2, k) }

\* C13: a step changes at most one registry entry, from Unknown (absent) to
\* Reading or from Reading to Finished; no entry is deleted or stored as
\* Unknown, and a task's claim succeeds only on a token that had no entry.
C13_ForwardOnly ==
    [][ /\ DOMAIN states \subseteq DOMAIN states'
        /\ \A k \in DOMAIN states' : states'[k] # partitionStateUnknown
        /\ Cardinality(ChangedEntries(states, states')) <= 1
        /\ \A k \in ChangedEntries(states, states') :
              \/ /\ k \notin DOMAIN states
                 /\ states'[k] = partitionStateReading
              \/ /\ Lookup(states, k) = partitionStateReading
                 /\ states'[k] = partitionStateFinished
        /\ \A t \in TaskIds :
              (~tasks[t].claimed /\ tasks'[t].claimed) =>
                  /\ tasks[t].token \notin DOMAIN states
                  /\ states'[tasks[t].token] = partitionStateReading ]_vars

\* One token is Finished and a later task for it was refused the claim,
\* while another token is still Reading.
C13_Witness ==
    /\ \E tok \in DOMAIN states :
          /\ states[tok] = partitionStateFinished
          /\ \E u \in TasksFor(tok) : tasks[u].pc = "done" /\ ~tasks[u].claimed
    /\ \E tok \in DOMAIN states : states[tok] = partitionStateReading

\* C14: a task that returned an error (stream, decode, sink or
\* cancellation) has claimed its token and never marked it Finished: the
\* entry is Reading in every later state; and the step in which a task
\* fails or the context is cancelled leaves the registry as it was.
C14_FailedStaysReading ==
    /\ [] \A t \in TaskIds : Failed(t) =>
             /\ tasks[t].claimed
             /\ Lookup(states, tasks[t].token) = partitionStateReading
             /\ \A k \in 1..Len(finishOrder) : finishOrder[k] # tasks[t].token
    /\ [][ (\/ cancelled' # cancelled
            \/ \E t \in TaskIds : ~Failed(t) /\ tasks'[t].pc = "done"
                                             /\ tasks'[t].err # NoErr)
           => states' = states ]_vars

\* Read has returned; one task failed on its own and another was ended by
\* the cancellation, and both tokens are still Reading.
C14_Witness ==
    /\ ReadReturned
    /\ \E t, u \in TaskIds :
          /\ Failed(t) /\ tasks[t].err.kind = "cancelled"
          /\ Failed(u) /\ tasks[u].err.kind \in {"stream", "decode", "sink"}
          /\ states[tasks[t].token] = partitionStateReading
          /\ states[tasks[u].token] = partitionStateReading

\* Task t is at the canReadChild call for the child its loop is at.
AtCheck(t) ==
    /\ tasks[t].pc = "loop"
    /\ ~tasks[t].pend
    /\ tasks[t].i <= Len(tasks[t].cpr)

\* The parent tokens listed with the child task t's loop is at.
CheckedParents(t) ==
    { CurrentChild(tasks[t]).ParentPartitionTokens[k] :
        k \in 1..Len(CurrentChild(tasks[t]).ParentPartitionTokens) }

\* Tasks started by task t.
SpawnedBy(t) == { u \in TaskIds : tasks[u].by = t }

\* C15: a canReadChild call answers true exactly when every listed parent
\* is Finished in the registry as it is at the call: one parent Reading or
\* without an entry makes it false, an empty list makes it true.
C15_AllParentsFinished ==
    [][ \A t \in TaskIds : (AtCheck(t) /\ tasks'[t] # tasks[t]) =>
          /\ tasks'[t].pend <=>
                \A p \in CheckedParents(t) :
                    p \in DOMAIN states /\ states[p] = partitionStateFinished
          /\ (\E p \in CheckedParents(t) : p \notin DOMAIN states) => ~tasks'[t].pend
          /\ (\E p \in CheckedParents(t) :
                  Lookup(states, p) = partitionStateReading) => ~tasks'[t].pend
          /\ CheckedParents(t) = {} => tasks'[t].pend ]_vars

\* The three cases in one run: the root's check of a child listed with no
\* parents was true, one parent's check of a two-parent child was false
\* (it went past the child and started nothing), and the other parent's
\* check was true (its task for the child runs).
C15_Witness ==
    \E c \in Children(dag) : \E t, u \in TaskIds :
        /\ Cardinality(ParentsOf(dag, c)) = 2
        /\ t # u
        /\ PastChild(t, c) /\ Listed(t, c) > 0
        /\ \A w \in SpawnedBy(t) : tasks[w].token # c
        /\ \E w \in SpawnedBy(u) : tasks[w].token = c /\ tasks[w].claimed
        /\ tasks[t].by # 0 /\ ParentsOf(dag, tasks[t].token) = {}

\* C16: once a Read call has made the group, it eventually returns, with
\* the count of outstanding tasks at zero and every task returned; a Read
\* call that was refused returns as well.
C16_Termination ==
    /\ (group # 0) ~> (ReadReturned /\ wg = 0 /\ AllTasksDone)
    /\ \A c \in Callers : (reads[c].pc # "idle") ~> (reads[c].pc = "done")

\* Read has returned after a traversal in which a task that lost the claim,
\* a task that failed and a task that finished its partition all returned.
C16_Witness ==
    /\ ReadReturned /\ wg = 0 /\ AllTasksDone
    /\ \E t, u, w \in TaskIds :
          /\ ~tasks[t].claimed
          /\ Failed(u)
          /\ tasks[w].claimed /\ tasks[w].err = NoErr /\ Len(tasks[w].cpr) > 0

\* The tasks that have called f with a result carrying token tok.
Deliverers(tok) ==
    { t \in TaskIds : \E k \in 1..Len(tasks[t].log) : tasks[t].log[k].PartitionToken = tok }

\* C17: every call of f with a result carrying token tok is made by the one
\* task that claimed tok, and is made while tok's entry is Reading: never
\* for a token without an entry or a Finished one, never by two tasks.
C17_SinkOnlyWhileReading ==
    /\ [] \A tok \in Tokens(dag) :
             /\ Deliverers(tok) \subseteq Claimers(tok)
             /\ Cardinality(Deliverers(tok)) <= 1
             /\ Deliverers(tok) # {} => tok \in DOMAIN states
    /\ [][ \A t \in TaskIds :
             Len(tasks'[t].log) > Len(tasks[t].log) =>
                LET e == tasks'[t].log[Len(tasks'[t].log)]
                IN  /\ e.PartitionToken = tasks[t].token
                    /\ tasks[t].claimed
                    /\ Lookup(states, e.PartitionToken) = partitionStateReading
                    /\ Lookup(states', e.PartitionToken) = partitionStateReading ]_vars

\* Two tasks were started for one child; one of them claimed it and handed
\* a result to f, the other returned without calling f, and the child's
\* parents, Finished, had handed their results to f before.
C17_Witness ==
    \E c \in Children(dag) : \E t, u \in TasksFor(c) :
        /\ t # u
        /\ Deliverers(c) = {t}
        /\ tasks[u].pc = "done" /\ tasks[u].log = << >>
        /\ \A p \in ParentsOf(dag, c) : IsFinished(p) /\ Deliverers(p) # {}

\* Task t was started by a task that had claimed its own token, streamed it
\* to the end, marked it Finished and received an announcement of t's token.
SpawnedByFinished(t) ==
    /\ tasks[t].by \in TaskIds
    /\ LET p == tasks[tasks[t].by]
       IN  /\ p.claimed
           /\ p.pc \in {"loop", "done"}
           /\ p.err = NoErr
           /\ Lookup(states, p.token) = partitionStateFinished
           /\ tasks[t].token \in AnnouncedBy(p.token)
           /\ Listed(tasks[t].by, tasks[t].token) > 0

\* C18: only Read starts a task for the root; every other task was started
\* by a task that had already run markStateFinished on a partition that
\* announced the task's token, whether or not that partition is in the
\* child's parent list; so every registry token but the root's was claimed
\* when an announcer of it was Finished.
C18_AnnouncerFinished ==
    /\ [] \A t \in TaskIds :
             IF tasks[t].by = 0 THEN tasks[t].token = RootToken
             ELSE tasks[t].token # RootToken /\ SpawnedByFinished(t)
    /\ [] \A tok \in DOMAIN states \ {RootToken} :
             \E t \in Claimers(tok) : SpawnedByFinished(t)
    /\ [][ \A t \in TaskIds :
             (~tasks[t].claimed /\ tasks'[t].claimed /\ tasks[t].by # 0) =>
                 SpawnedByFinished(t) ]_vars

\* A child listed with no parents is in the registry: the root, which
\* announced it and is in no parent list, was Finished when it started the
\* child's task.
C18_Witness ==
    \E tok \in DOMAIN states \ {RootToken} :
        /\ ParentsOf(dag, tok) = {}
        /\ \E t \in Claimers(tok) :
              /\ SpawnerToken(t) = RootToken
              /\ IsFinished(RootToken)

\* The number of places where task u's records list child tok in a record
\* whose start timestamp is ts.
ListedAt(u, tok, ts) ==
    Cardinality({ q \in (1..Len(tasks[u].cpr)) \X (1..2) :
                    /\ q[2] <= Len(tasks[u].cpr[q[1]].ChildPartitions)
                    /\ tasks[u].cpr[q[1]].ChildPartitions[q[2]].Token = tok
                    /\ tasks[u].cpr[q[1]].StartTimestamp = ts })

\* C19: the task a group.Go call starts has the token of the child the loop
\* was at and the start timestamp of the record that lists that child, and
\* keeps both until it returns, however late it takes its first step; a
\* spawner starts no more tasks for a (token, timestamp) pair than its
\* records list.
C19_CapturesOwnIteration ==
    /\ [][ /\ \A t \in TaskIds :
                /\ tasks'[t].token = tasks[t].token
                /\ tasks'[t].ts = tasks[t].ts
                /\ tasks'[t].by = tasks[t].by
           /\ \A t \in TaskIds :
                (tasks[t].pend /\ ~tasks'[t].pend /\ Len(tasks') > Len(tasks)) =>
                   LET new == tasks'[Len(tasks')]
                   IN  /\ new.by = t
                       /\ new.token = CurrentChild(tasks[t]).Token
                       /\ new.ts = tasks[t].cpr[tasks[t].i].StartTimestamp ]_vars
    /\ [] \A u \in TaskIds : \A t \in SpawnedBy(u) :
             /\ ListedAt(u, tasks[t].token, tasks[t].ts) > 0
             /\ Cardinality({ w \in SpawnedBy(u) : /\ tasks[w].token = tasks[t].token
                                                  /\ tasks[w].ts = tasks[t].ts })
                  <= ListedAt(u, tasks[t].token, tasks[t].ts)

\* A spawner started two tasks from two records with different start
\* timestamps and has returned; the task started first has not taken its
\* first step yet and holds the first record's timestamp, the other runs.
C19_Witness ==
    \E u \in TaskIds : \E t, w \in SpawnedBy(u) :
        /\ tasks[u].pc = "done"
        /\ t < w
        /\ tasks[t].ts < tasks[w].ts
        /\ tasks[t].token # tasks[w].token
        /\ tasks[t].pc = "start"
        /\ tasks[w].claimed

\* C20: a canReadChild call leaves the registry as it was, also when a
\* listed parent has no entry: no entry holds the zero value Unknown, and
\* the first markStateReading on a token without an entry returns true.
C20_CheckLeavesRegistry ==
    /\ [][ \A t \in TaskIds :
             (AtCheck(t) /\ tasks'[t] # tasks[t]) => states' = states ]_vars
    /\ [] \A tok \in DOMAIN states : states[tok] # partitionStateUnknown
    /\ [][ \A t \in TaskIds :
             (tasks[t].pc = "start" /\ tasks'[t].pc # "start"
                /\ Claimers(tasks[t].token) = {}) => tasks'[t].claimed ]_vars
    /\ [] \A tok \in Tokens(dag) :
             (\E t \in TasksFor(tok) : tasks[t].pc # "start") => Claimers(tok) # {}

\* A task went past a child without starting it because a listed parent
\* had no entry; that parent still has none, and a task started for it is
\* about to call markStateReading.
C20_Witness ==
    \E c \in Children(dag) : \E t \in TaskIds : \E p \in ParentsOf(dag, c) :
        /\ PastChild(t, c) /\ Listed(t, c) > 0
        /\ \A w \in SpawnedBy(t) : tasks[w].token # c
        /\ p \notin DOMAIN states
        /\ \E u \in TasksFor(p) : tasks[u].pc = "start"

====
